---------------------------- MODULE Spec2Model ----------------------------
(***************************************************************************)
(* Model of the BH-EA dashboard (src/app.py, src/processing/*.py).         *)
(*                                                                         *)
(* Numbers.  A Python float is modelled as a decimal floating-point        *)
(* number.  A table cell is one of                                         *)
(*   <<>>            not-a-number (numpy.nan)                              *)
(*   <<"inf">>       infinity                                              *)
(*   <<m, e>>        the float m * 10^e                                    *)
(*   <<"s", cs, "">> a text cell, cs the sequence of its characters        *)
(* Text is a sequence of one-character strings, so that formatting,        *)
(* substitution, pattern extraction and parsing are computed character by  *)
(* character, as pandas/Python compute them.                               *)
(***************************************************************************)
EXTENDS Integers, Sequences, FiniteSets, TLC

VARIABLES
    \* --- process-wide state of src/app.py ---
    df,                 \* current table (app.py:49)
    ert_processed_img,  \* app.py:51
    ert_processed_csv,  \* app.py:52
    ert_uploaded_img,   \* app.py:53
    COST_GOLD_MAX,      \* app.py:27
    YIELD_GOLD_MIN,     \* app.py:28
    COST_TROUBLE_MIN,   \* app.py:29
    YIELD_TROUBLE_MAX,  \* app.py:30
    \* --- the last request to index() and its response ---
    req,                \* inputs of the last request
    resp,               \* what the last request produced
    lastCsv,            \* output of the last process_bh_ea_csv call that returned
    lastErt,            \* artifacts of the last process_ert_data call that returned some
    \* --- Tabular Normalizer / Metric Aggregator harness ---
    raw,                \* the uploaded CSV file, cells as text
    norm1,              \* result of process_bh_ea_csv(raw)
    norm2,              \* result of the normalizer applied to norm1's table
    metrics,            \* result of build_dashboard
    nphase,
    \* --- Geophysical Raster Processor harness ---
    ertIn,              \* inputs and environment of a process_ert_data call
    ertOut,             \* its outcome
    ephase,
    samples,            \* rows (x, z, resistivity) of a CSV sounding file
    grid                \* the array the fallback path rasterizes them into

appVars  == <<df, ert_processed_img, ert_processed_csv, ert_uploaded_img,
              COST_GOLD_MAX, YIELD_GOLD_MIN, COST_TROUBLE_MIN, YIELD_TROUBLE_MAX,
              req, resp, lastCsv, lastErt>>
normVars == <<raw, norm1, norm2, metrics, nphase>>
ertVars  == <<ertIn, ertOut, ephase, samples, grid>>
vars     == <<appVars, normVars, ertVars>>

-----------------------------------------------------------------------------
(* Bounds *)

MaxRows   == 2     \* rows of an uploaded CSV file
MaxSamples == 3    \* rows of a CSV sounding file
DivDigits == 4     \* decimal digits a quotient is carried to

-----------------------------------------------------------------------------
(* Floats and text *)

NaN      == <<>>
Inf      == <<"inf">>
Str(cs)  == <<"s", cs, "">>
IsNaN(v) == Len(v) = 0
IsInf(v) == Len(v) = 1
IsNum(v) == Len(v) = 2
IsStr(v) == Len(v) = 3

RECURSIVE Num(_, _)
\* the float m * 10^e, in canonical form (no trailing zero in m)
Num(m, e) ==
    IF m = 0 THEN <<0, 0>>
    ELSE IF m % 10 = 0 THEN Num(m \div 10, e + 1)
    ELSE <<m, e>>

Man(v) == v[1]
Exp(v) == v[2]

None == "None"

DigitChars == {"0", "1", "2", "3", "4", "5", "6", "7", "8", "9"}

DigitVal(c) ==
    CASE c = "0" -> 0 [] c = "1" -> 1 [] c = "2" -> 2 [] c = "3" -> 3
      [] c = "4" -> 4 [] c = "5" -> 5 [] c = "6" -> 6 [] c = "7" -> 7
      [] c = "8" -> 8 [] c = "9" -> 9

DigitChar(d) ==
    CASE d = 0 -> "0" [] d = 1 -> "1" [] d = 2 -> "2" [] d = 3 -> "3"
      [] d = 4 -> "4" [] d = 5 -> "5" [] d = 6 -> "6" [] d = 7 -> "7"
      [] d = 8 -> "8" [] d = 9 -> "9"

RECURSIVE DigitsVal(_)
DigitsVal(s) ==
    IF s = <<>> THEN 0
    ELSE DigitsVal(SubSeq(s, 1, Len(s) - 1)) * 10 + DigitVal(s[Len(s)])

RECURSIVE NatDigits(_)
\* decimal digits of a natural number, no leading zeros ("0" for 0)
NatDigits(n) ==
    IF n < 10 THEN <<DigitChar(n)>>
    ELSE Append(NatDigits(n \div 10), DigitChar(n % 10))

Zeros(k) == [i \in 1..k |-> "0"]

\* float(text): an optional sign, digits with at most one point, at least one
\* digit.  Exponents, "inf", "nan", "_" and blanks are outside the alphabet of
\* the model.
PyFloat(cs) ==
    LET body == IF cs # <<>> /\ cs[1] \in {"+", "-"} THEN Tail(cs) ELSE cs
        dots == {i \in 1..Len(body) : body[i] = "."}
        ok   == /\ body # <<>>
                /\ \A i \in 1..Len(body) : body[i] \in DigitChars \cup {"."}
                /\ \E i \in 1..Len(body) : body[i] \in DigitChars
                /\ Cardinality(dots) <= 1
        dot  == IF dots = {} THEN Len(body) + 1 ELSE CHOOSE i \in dots : TRUE
        mag  == DigitsVal(SelectSeq(body, LAMBDA c : c # "."))
        frac == IF dots = {} THEN 0 ELSE Len(body) - dot
    IN  IF ok
        THEN [ok |-> TRUE, val |-> Num(IF cs[1] = "-" THEN 0 - mag ELSE mag, 0 - frac)]
        ELSE [ok |-> FALSE, val |-> NaN]

\* str(float): Python's repr.  Positional notation for 1e-4 <= |x| < 1e16,
\* exponent notation ("5e-05", "1.5e-05", "1e+16") outside it.
FormatFloat(v) ==
    LET m    == Man(v)
        e    == Exp(v)
        a    == IF m < 0 THEN 0 - m ELSE m
        sign == IF m < 0 THEN <<"-">> ELSE <<>>
        ds   == NatDigits(a)
        L    == Len(ds)
        x    == L + e - 1
        mant == IF L = 1 THEN ds ELSE <<ds[1], ".">> \o Tail(ds)
        xs   == IF x < 0 THEN <<"e", "-">> \o (IF 0 - x < 10 THEN <<"0">> ELSE <<>>)
                                \o NatDigits(0 - x)
                ELSE <<"e", "+">> \o NatDigits(x)
        pos  == IF e >= 0 THEN ds \o Zeros(e) \o <<".", "0">>
                ELSE IF L + e > 0
                     THEN SubSeq(ds, 1, L + e) \o <<".">> \o SubSeq(ds, L + e + 1, L)
                     ELSE <<"0", ".">> \o Zeros(0 - e - L) \o ds
    IN  IF a = 0 THEN <<"0", ".", "0">>
        ELSE IF x < 0 - 4 \/ x >= 16 THEN sign \o mant \o xs
        ELSE sign \o pos

\* Series.astype(str) of one cell
AsStr(v) ==
    IF IsNaN(v) THEN <<"n", "a", "n">>
    ELSE IF IsInf(v) THEN <<"i", "n", "f">>
    ELSE IF IsNum(v) THEN FormatFloat(v)
    ELSE v[2]

\* .str.replace(",", ".", regex=False)
ReplaceComma(cs) == [i \in 1..Len(cs) |-> IF cs[i] = "," THEN "." ELSE cs[i]]

\* .str.extract(r"([\d\.]+)"): the first maximal run of digits and points;
\* <<>> when there is none (pandas gives NaN)
ExtractRun(cs) ==
    LET in(i)  == cs[i] \in DigitChars \cup {"."}
        starts == {i \in 1..Len(cs) : in(i)}
    IN  IF starts = {} THEN <<>>
        ELSE LET b == CHOOSE i \in starts : \A j \in starts : i <= j
                 e == CHOOSE i \in b..Len(cs) :
                        /\ \A j \in b..i : in(j)
                        /\ (i = Len(cs) \/ ~in(i + 1))
             IN  SubSeq(cs, b, e)

-----------------------------------------------------------------------------
(* Float arithmetic on cells (numpy semantics: NaN propagates, x/0 = inf).  *)
(* Sums, differences and products are exact; a quotient is carried to      *)
(* DivDigits decimal digits beyond the dividend's.                         *)

Min(a, b) == IF a < b THEN a ELSE b

\* the mantissa of v at exponent e <= Exp(v)
At(v, e) == Man(v) * 10 ^ (Exp(v) - e)

Sub(a, b) ==
    IF IsNum(a) /\ IsNum(b)
    THEN LET e == Min(Exp(a), Exp(b)) IN Num(At(a, e) - At(b, e), e)
    ELSE NaN

Add(a, b) ==
    IF IsNum(a) /\ IsNum(b)
    THEN LET e == Min(Exp(a), Exp(b)) IN Num(At(a, e) + At(b, e), e)
    ELSE NaN

IsZero(v) == IsNum(v) /\ Man(v) = 0
Lt0(v)    == IsNum(v) /\ Man(v) < 0

Div(a, b) ==
    IF IsNaN(a) \/ IsNaN(b) THEN NaN
    ELSE IF IsInf(a) THEN (IF IsInf(b) THEN NaN ELSE Inf)
    ELSE IF IsInf(b) THEN Num(0, 0)
    ELSE IF IsZero(b) THEN (IF IsZero(a) THEN NaN ELSE Inf)
    ELSE IF Man(b) < 0
         THEN Num((0 - Man(a) * 10 ^ DivDigits) \div (0 - Man(b)),
                  Exp(a) - Exp(b) - DivDigits)
         ELSE Num((Man(a) * 10 ^ DivDigits) \div Man(b), Exp(a) - Exp(b) - DivDigits)

Mul(a, b) ==
    IF IsNaN(a) \/ IsNaN(b) THEN NaN
    ELSE IF IsInf(a) \/ IsInf(b) THEN (IF IsZero(a) \/ IsZero(b) THEN NaN ELSE Inf)
    ELSE Num(Man(a) * Man(b), Exp(a) + Exp(b))

\* Series.replace(0, np.nan)
ZeroToNaN(v) == IF IsZero(v) THEN NaN ELSE v

-----------------------------------------------------------------------------
(* Tables: [n |-> number of rows, cols |-> [column name -> sequence of n cells]] *)

Has(t, c)      == c \in DOMAIN t.cols
Col(t, c)      == t.cols[c]
Rows(t)        == 1..t.n
With(t, c, xs) == [t EXCEPT !.cols = (c :> xs) @@ t.cols]
AnyNull(xs)    == \E i \in 1..Len(xs) : IsNaN(xs[i])
Map2(Op(_, _), xs, ys) == [i \in 1..Len(xs) |-> Op(xs[i], ys[i])]

numeric_cols == {"Depth_m", "Static_WL_m_bgl", "Dynamic_WL_m_bgl", "Yield_Lps",
                 "Drawdown_m", "Specific_Capacity_Lps_per_m", "Cost_USD"}
hydraulic_cols == {"Pumping_Hours", "Recovery_Hours", "Transmissivity_m2_per_day",
                   "Storage_Coefficient", "Monthly_Volume_m3"}

\* pd.read_csv(file_path, delimiter=';') on a file whose cells are text (<<>> an
\* empty cell).  A column all of whose non-empty cells are numbers is read as
\* floats; any other column keeps its text.  An empty cell is NaN.  (A column
\* of whole numbers is read as int64 and prints without ".0"; the digits
\* extracted from it are the same number.)
ReadCell(numeric, cs) ==
    IF cs = <<>> THEN NaN
    ELSE IF numeric THEN PyFloat(cs).val
    ELSE Str(cs)

ReadCsv(file) ==
    [n    |-> file.n,
     cols |-> [c \in DOMAIN file.cols |->
                LET xs      == file.cols[c]
                    numeric == \A i \in 1..Len(xs) : xs[i] = <<>> \/ PyFloat(xs[i]).ok
                IN  [i \in 1..Len(xs) |-> ReadCell(numeric, xs[i])]]]

\* One cell through astype(str) / replace / extract: the extracted text, or
\* <<>> when the pattern does not match
Extracted(v) == ExtractRun(ReplaceComma(AsStr(v)))

\* app.py:254-259: .astype(float) raises ValueError on text such as "1.2.3" or "."
StrictOk(v)     == Extracted(v) = <<>> \/ PyFloat(Extracted(v)).ok
CoerceCell(v)   == IF Extracted(v) = <<>> THEN NaN
                   ELSE IF PyFloat(Extracted(v)).ok THEN PyFloat(Extracted(v)).val
                   ELSE NaN
CoerceCol(xs)   == [i \in 1..Len(xs) |-> CoerceCell(xs[i])]

CoerceNumeric(t) ==
    [t EXCEPT !.cols = [c \in DOMAIN t.cols |->
        IF c \in numeric_cols \cup hydraulic_cols THEN CoerceCol(t.cols[c])
        ELSE t.cols[c]]]

\* the strict coercion (app.py:252-259) raises when some cell of a numeric_cols
\* column yields text that float() rejects
CoerceRaises(t) ==
    \E c \in DOMAIN t.cols \cap numeric_cols :
        \E i \in 1..Len(t.cols[c]) : ~StrictOk(t.cols[c][i])

\* a variant that recomputes the drawdown whatever the table already holds
DrawdownAlways(t) ==
    IF Has(t, "Static_WL_m_bgl") /\ Has(t, "Dynamic_WL_m_bgl")
    THEN With(t, "Drawdown_m",
              Map2(Sub, Col(t, "Dynamic_WL_m_bgl"), Col(t, "Static_WL_m_bgl")))
    ELSE t

\* app.py:275-277
DrawdownStep(t) ==
    IF ~Has(t, "Drawdown_m") \/ AnyNull(Col(t, "Drawdown_m"))
    THEN IF Has(t, "Static_WL_m_bgl") /\ Has(t, "Dynamic_WL_m_bgl")
         THEN With(t, "Drawdown_m",
                   Map2(Sub, Col(t, "Dynamic_WL_m_bgl"), Col(t, "Static_WL_m_bgl")))
         ELSE t
    ELSE t

\* app.py:280-282
SafeDiv(a, b)  == Div(a, ZeroToNaN(b))

\* a variant that divides by the drawdown as it is, zero included
SpecCapNoZeroGuard(t) ==
    IF ~Has(t, "Specific_Capacity_Lps_per_m")
         \/ AnyNull(Col(t, "Specific_Capacity_Lps_per_m"))
    THEN IF Has(t, "Yield_Lps") /\ Has(t, "Drawdown_m")
         THEN With(t, "Specific_Capacity_Lps_per_m",
                   Map2(Div, Col(t, "Yield_Lps"), Col(t, "Drawdown_m")))
         ELSE t
    ELSE t

\* app.py:280-282
SpecCapStep(t) ==
    IF ~Has(t, "Specific_Capacity_Lps_per_m")
         \/ AnyNull(Col(t, "Specific_Capacity_Lps_per_m"))
    THEN IF Has(t, "Yield_Lps") /\ Has(t, "Drawdown_m")
         THEN With(t, "Specific_Capacity_Lps_per_m",
                   Map2(SafeDiv, Col(t, "Yield_Lps"), Col(t, "Drawdown_m")))
         ELSE t
    ELSE t

\* app.py:285-288
CleanNegatives(t) ==
    [t EXCEPT !.cols = [c \in DOMAIN t.cols |->
        IF c \in {"Drawdown_m", "Specific_Capacity_Lps_per_m"}
        THEN [i \in 1..Len(t.cols[c]) |-> IF Lt0(t.cols[c][i]) THEN NaN ELSE t.cols[c][i]]
        ELSE t.cols[c]]]

\* app.py:291-297: everything below the test of Depth_m and Cost_USD is inside
\* it, and reads its columns without testing for them (KeyError)
cycle_inputs == {"Pumping_Hours", "Recovery_Hours", "Yield_Lps",
                 "Transmissivity_m2_per_day", "Storage_Coefficient"}

DerivedGuard(t)  == Has(t, "Depth_m") /\ Has(t, "Cost_USD")
DerivedRaises(t) == DerivedGuard(t) /\ ~(cycle_inputs \subseteq DOMAIN t.cols)

\* yield * 3600 * 24 * 30 / 1000
MonthlyVolume(y) == Div(Mul(y, Num(3600 * 24 * 30, 0)), Num(1000, 0))
Efficiency(tr, cost) == Mul(Div(tr, cost), Num(1000, 0))

DerivedStep(t) ==
    IF DerivedGuard(t)
    THEN LET t1 == With(t, "Cost_per_m_USD",
                        Map2(SafeDiv, Col(t, "Cost_USD"), Col(t, "Depth_m")))
             t2 == With(t1, "Cycle_Duration_hr",
                        Map2(Add, Col(t, "Pumping_Hours"), Col(t, "Recovery_Hours")))
             t3 == With(t2, "Monthly_Volume_m3",
                        [i \in Rows(t) |-> MonthlyVolume(Col(t, "Yield_Lps")[i])])
             t4 == With(t3, "Efficiency_Index",
                        Map2(Efficiency, Col(t, "Transmissivity_m2_per_day"),
                             Col(t, "Cost_USD")))
         IN  With(t4, "Storage_Index",
                  Map2(Mul, Col(t, "Storage_Coefficient"), Col(t, "Yield_Lps")))
    ELSE t

Ok(t)     == [ok |-> TRUE, table |-> t, err |-> None]
Raise(e)  == [ok |-> FALSE, table |-> [n |-> 0, cols |-> <<>>], err |-> e]

\* process_bh_ea_csv from the cleaned headers on (app.py:246-299), applied to a
\* table in memory
NormalizeTable(t) ==
    IF CoerceRaises(t) THEN Raise("ValueError")
    ELSE LET a == CoerceNumeric(t)
             b == CleanNegatives(SpecCapStep(DrawdownStep(a)))
         IN  IF DerivedRaises(b) THEN Raise("KeyError")
             ELSE Ok(DerivedStep(b))

\* process_bh_ea_csv(file_path): both read_csv attempts fail on an unreadable file
process_bh_ea_csv(file) ==
    IF ~file.readable THEN Raise("ParserError")
    ELSE NormalizeTable(ReadCsv(file))


-----------------------------------------------------------------------------
(* Metric Aggregator: build_dashboard (app.py:78-134) *)

\* dataframe.columns = [c.strip().lower() ...] (app.py:84), on the column names
\* of the model
Lower(c) ==
    CASE c = "Yield_Lps" -> "yield_lps"
      [] c = "Cost_USD" -> "cost_usd"
      [] c = "Depth_m" -> "depth_m"
      [] c = "Transmissivity_m2_per_day" -> "transmissivity_m2_per_day"
      [] c = "Storage_Coefficient" -> "storage_coefficient"
      [] c = "Monthly_Volume_m3" -> "monthly_volume_m3"
      [] OTHER -> c

LowerCols(t) ==
    LET names == {Lower(c) : c \in DOMAIN t.cols}
    IN  [t EXCEPT !.cols = [l \in names |->
            t.cols[CHOOSE c \in DOMAIN t.cols : Lower(c) = l]]]

\* pd.to_numeric(col, errors="coerce") of a cell of the current table
ToNumeric(v) ==
    IF IsStr(v) THEN (IF PyFloat(v[2]).ok THEN PyFloat(v[2]).val ELSE NaN) ELSE v

RECURSIVE SumVals(_)
SumVals(xs) == IF xs = <<>> THEN Num(0, 0) ELSE Add(Head(xs), SumVals(Tail(xs)))

\* Series.mean(skipna=True): NaN for an empty or all-NaN column
Mean(xs) ==
    LET nums == SelectSeq([i \in 1..Len(xs) |-> ToNumeric(xs[i])], IsNum)
    IN  IF nums = <<>> THEN NaN ELSE Div(SumVals(nums), Num(Len(nums), 0))

\* Python truth value of a float: only 0.0 is false; NaN is true
Truthy(v) == ~IsZero(v)

\* "x or 0"
OrZero(v) == IF Truthy(v) THEN v ELSE Num(0, 0)

\* round(x, d), to the nearest multiple of 10^-d, ties to even; round(nan, d) is nan
Round(v, d) ==
    IF ~IsNum(v) \/ Exp(v) >= 0 - d THEN v
    ELSE LET q  == 10 ^ (0 - d - Exp(v))
             lo == Man(v) \div q
             r  == Man(v) - lo * q
         IN  IF 2 * r < q THEN Num(lo, 0 - d)
             ELSE IF 2 * r > q THEN Num(lo + 1, 0 - d)
             ELSE IF lo % 2 = 0 THEN Num(lo, 0 - d) ELSE Num(lo + 1, 0 - d)

required_cols == {"yield_lps", "cost_usd", "depth_m"}

\* app.py:89-94: a missing required column is added as all-NaN
AddRequired(t) ==
    [t EXCEPT !.cols = [c \in DOMAIN t.cols \cup required_cols |->
        IF c \in DOMAIN t.cols THEN t.cols[c] ELSE [i \in Rows(t) |-> NaN]]]

\* app.py:83-97: the table build_dashboard works on, and its record count
Prepared(dataframe) == AddRequired(LowerCols(dataframe))
total_bh(dataframe) == Prepared(dataframe).n

AvgOf(t, c, d)    == Round(OrZero(Mean(Col(t, c))), d)
AvgIfHas(t, c, d) == IF Has(t, c) THEN AvgOf(t, c, d) ELSE Num(0, 0)

\* a variant of the comparison that also accepts equality
GtOrEqual(a, b) == IsNum(a) /\ IsNum(b) /\ ~Lt0(Sub(a, b))

\* Series < scalar and Series > scalar: False wherever the cell is NaN
Lt(a, b) == Lt0(Sub(a, b))
Gt(a, b) == Lt0(Sub(b, a))

build_dashboard(dataframe, th) ==
    LET t        == Prepared(dataframe)
        avg_cost == AvgOf(t, "cost_usd", 2)
        y(i)     == ToNumeric(Col(t, "yield_lps")[i])
        c(i)     == ToNumeric(Col(t, "cost_usd")[i])
    IN  [total_bh           |-> total_bh(dataframe),
         missing            |-> required_cols \ {Lower(k) : k \in DOMAIN dataframe.cols},
         avg_yield          |-> AvgOf(t, "yield_lps", 2),
         avg_cost           |-> avg_cost,
         proj_savings       |-> Round(Mul(Mul(Num(t.n, 0), OrZero(avg_cost)),
                                          Num(25, 0 - 2)), 2),
         avg_transmissivity |-> AvgIfHas(t, "transmissivity_m2_per_day", 2),
         avg_storage        |-> AvgIfHas(t, "storage_coefficient", 5),
         avg_volume         |-> AvgIfHas(t, "monthly_volume_m3", 1),
         gold_mask          |-> [i \in Rows(t) |->
                                   Gt(y(i), th.YIELD_GOLD_MIN) /\ Lt(c(i), th.COST_GOLD_MAX)],
         trou_mask          |-> [i \in Rows(t) |->
                                   Lt(y(i), th.YIELD_TROUBLE_MAX) /\ Gt(c(i), th.COST_TROUBLE_MIN)]]

\* the thresholds the module starts with (app.py:27-30)
DefaultThresholds ==
    [COST_GOLD_MAX     |-> Num(1700, 0),
     YIELD_GOLD_MIN    |-> Num(17, 0 - 1),
     COST_TROUBLE_MIN  |-> Num(4000, 0),
     YIELD_TROUBLE_MAX |-> Num(8, 0 - 1)]


-----------------------------------------------------------------------------
(* Geophysical Raster Processor: process_ert_data (ert_processor.py:13-93)  *)
(*                                                                         *)
(* e is the call's environment: what each step that can fail does.         *)
(*   mkdirOk      os.makedirs(output_dir) succeeds                         *)
(*   has_pygimli  HAS_PYGIMLI                                              *)
(*   pg           the specialised path: "ok", or the step that raises      *)
(*   is_csv       file_path.lower().endswith('.csv')                       *)
(*   fb           the fallback path: "ok", or the step that raises         *)
(*   png0, csv0   ert_result.png and ert_model.csv before the call         *)
(***************************************************************************)

img_out == "ert_result.png"
csv_out == "ert_model.csv"

PgSteps == {"ok", "load", "savefig", "savetxt", "savetxt_write"}
FbSteps == {"ok", "read", "savefig", "savetxt"}

ErtResult(raised, img, csv, png, csvf) ==
    [raised |-> raised, img |-> img, csv |-> csv, png |-> png, csvf |-> csvf]

\* ert_processor.py:60-71: the grid of a CSV sounding file.  rows is the
\* sequence of its (x, z, resistivity) rows, every value a float cell.

\* a sorts before b in np.unique: ascending, NaN last
SortsBefore(a, b) == IsNum(a) /\ (IsNaN(b) \/ Lt(a, b))

RECURSIVE np_unique(_)
np_unique(S) ==
    IF S = {} THEN <<>>
    ELSE LET m == CHOOSE a \in S : \A b \in S : ~SortsBefore(b, a)
         IN  <<m>> \o np_unique(S \ {m})

\* np.where(us == v)[0]: the positions of v in us; NaN equals nothing
np_where(us, v) == {i \in 1..Len(us) : IsNum(v) /\ us[i] = v}
First(S) == CHOOSE i \in S : \A j \in S : i <= j

\* a variant of the empty grid filled with zeros
ZeroGrid(nzs, nxs) == [zi \in 1..nzs |-> [xi \in 1..nxs |-> Num(0, 0)]]

\* np.full((len(zs), len(xs)), np.nan)
EmptyGrid(nzs, nxs) == [zi \in 1..nzs |-> [xi \in 1..nxs |-> NaN]]

\* the loop of ert_processor.py:67-70 from row k on; [0][0] of an empty
\* np.where raises IndexError
RECURSIVE Scatter(_, _, _, _, _)
Scatter(arr, rows, k, xs, zs) ==
    IF k > Len(rows) THEN [raised |-> FALSE, arr |-> arr]
    ELSE LET xw == np_where(xs, rows[k][1])
             zw == np_where(zs, rows[k][2])
         IN  IF xw = {} \/ zw = {} THEN [raised |-> TRUE, arr |-> <<>>]
             ELSE Scatter([arr EXCEPT ![First(zw)][First(xw)] = rows[k][3]],
                          rows, k + 1, xs, zs)

Rasterize(rows) ==
    LET xs == np_unique({rows[k][1] : k \in 1..Len(rows)})
        zs == np_unique({rows[k][2] : k \in 1..Len(rows)})
        out == Scatter(EmptyGrid(Len(zs), Len(xs)), rows, 1, xs, zs)
    IN  [raised |-> out.raised, xs |-> xs, zs |-> zs, arr |-> out.arr]

\* ert_processor.py:74-78: the synthetic section, np.meshgrid(x, z) of nx
\* distances and nz depths: nz rows of nx cells
nx == 80
nz == 40
SyntheticShape == <<nz, nx>>

\* ert_processor.py:48-93, entered with the two files as png and csvf
Fallback(e, png, csvf) ==
    LET kind == IF e.is_csv THEN "grid" ELSE "synthetic"
    IN  CASE e.fb = "read" /\ e.is_csv -> ErtResult(FALSE, None, None, png, csvf)
          [] e.fb = "savefig"          -> ErtResult(FALSE, None, None, png, csvf)
          [] e.fb = "savetxt"          -> ErtResult(FALSE, None, None, kind, csvf)
          [] OTHER                     -> ErtResult(FALSE, img_out, csv_out, kind, kind)

\* a variant that gives up when the specialised path raises
SpecialisedGivesUp(e) ==
    CASE e.pg = "ok"      -> ErtResult(FALSE, img_out, csv_out, "pygimli", "pygimli")
      [] e.pg = "savetxt" -> ErtResult(FALSE, img_out, csv_out, "pygimli", "model_length")
      [] OTHER            -> ErtResult(FALSE, None, None, e.png0, e.csv0)

\* ert_processor.py:26-46
Specialised(e) ==
    CASE e.pg = "ok"            -> ErtResult(FALSE, img_out, csv_out, "pygimli", "pygimli")
      [] e.pg = "savetxt"       -> ErtResult(FALSE, img_out, csv_out, "pygimli", "model_length")
      [] e.pg = "load"          -> Fallback(e, e.png0, e.csv0)
      [] e.pg = "savefig"       -> Fallback(e, e.png0, e.csv0)
      [] e.pg = "savetxt_write" -> Fallback(e, "pygimli", e.csv0)

process_ert_data(e) ==
    IF ~e.mkdirOk THEN ErtResult(TRUE, None, None, e.png0, e.csv0)
    ELSE IF e.has_pygimli THEN Specialised(e)
    ELSE Fallback(e, e.png0, e.csv0)

ErtEnvs ==
    [mkdirOk : BOOLEAN, has_pygimli : BOOLEAN, pg : PgSteps, is_csv : BOOLEAN,
     fb : FbSteps, png0 : {"absent", "old"}, csv0 : {"absent", "old"}]


-----------------------------------------------------------------------------
(* Uploaded files of the model *)

T0      == <<"0">>
T1      == <<"1">>
T3      == <<"3">>
T4      == <<"4">>
T6      == <<"6">>
T7      == <<"7">>
T8      == <<"8">>
T100    == <<"1", "0", "0">>
T120    == <<"1", "2", "0">>
T5000   == <<"5", "0", "0", "0">>
T1c5    == <<"1", ",", "5">>
T2c5    == <<"2", ",", "5">>
T0c002  == <<"0", ",", "0", "0", "2">>
Tsmall  == <<"0", ",", "0", "0", "0", "0", "5">>
Tabc    == <<"a", "b", "c">>
Tempty  == <<>>
Tthou   == <<"1", ".", "2", "3", "4", ",", "5">>
Tneg    == <<"-", "1", ",", "5">>

File(n, cols) == [readable |-> TRUE, n |-> n, cols |-> cols]
Unreadable    == [readable |-> FALSE, n |-> 0, cols |-> <<>>]

\* Depth_m;Yield_Lps;Cost_USD / 100;2,5;5000
FileScenario ==
    File(1, [c \in {"Depth_m", "Yield_Lps", "Cost_USD"} |->
        CASE c = "Depth_m" -> <<T100>> [] c = "Yield_Lps" -> <<T2c5>>
          [] c = "Cost_USD" -> <<T5000>>])

FileFull ==
    File(1, [c \in {"Depth_m", "Yield_Lps", "Cost_USD", "Pumping_Hours",
                    "Recovery_Hours", "Transmissivity_m2_per_day",
                    "Storage_Coefficient"} |->
        CASE c = "Depth_m" -> <<T100>> [] c = "Yield_Lps" -> <<T2c5>>
          [] c = "Cost_USD" -> <<T5000>> [] c = "Pumping_Hours" -> <<T8>>
          [] c = "Recovery_Hours" -> <<T6>>
          [] c = "Transmissivity_m2_per_day" -> <<T120>>
          [] c = "Storage_Coefficient" -> <<T0c002>>])

FileWL ==
    File(2, [c \in {"Static_WL_m_bgl", "Dynamic_WL_m_bgl", "Yield_Lps"} |->
        CASE c = "Static_WL_m_bgl" -> <<T1c5, T3>>
          [] c = "Dynamic_WL_m_bgl" -> <<T3, T1c5>>
          [] c = "Yield_Lps" -> <<T2c5, T2c5>>])

\* Each schema gives, per column, the cell texts a row may hold
Schemas ==
    { [c \in {"Depth_m", "Yield_Lps", "Cost_USD"} |->
         CASE c = "Depth_m" -> {T100, T0} [] c = "Yield_Lps" -> {T2c5, Tempty}
           [] c = "Cost_USD" -> {T5000}],
      [c \in {"Depth_m", "Yield_Lps", "Cost_USD", "Pumping_Hours", "Recovery_Hours",
              "Transmissivity_m2_per_day", "Storage_Coefficient"} |->
         CASE c = "Depth_m" -> {T100} [] c = "Yield_Lps" -> {T2c5, Tabc}
           [] c = "Cost_USD" -> {T5000, T0} [] c = "Pumping_Hours" -> {T8}
           [] c = "Recovery_Hours" -> {T6}
           [] c = "Transmissivity_m2_per_day" -> {T120}
           [] c = "Storage_Coefficient" -> {T0c002, Tsmall}],
      [c \in {"Static_WL_m_bgl", "Dynamic_WL_m_bgl", "Yield_Lps"} |->
         CASE c = "Static_WL_m_bgl" -> {T1c5, Tempty}
           [] c = "Dynamic_WL_m_bgl" -> {T3, T1c5, T1}
           [] c = "Yield_Lps" -> {T2c5, T0}],
      [c \in {"Static_WL_m_bgl", "Dynamic_WL_m_bgl", "Drawdown_m", "Yield_Lps"} |->
         CASE c = "Static_WL_m_bgl" -> {T1c5, Tempty}
           [] c = "Dynamic_WL_m_bgl" -> {T3, T1}
           [] c = "Drawdown_m" -> {T4, Tempty}
           [] c = "Yield_Lps" -> {T2c5}],
      [c \in {"Yield_Lps", "Drawdown_m", "Specific_Capacity_Lps_per_m"} |->
         CASE c = "Yield_Lps" -> {T2c5, Tempty}
           [] c = "Drawdown_m" -> {T4, T0}
           [] c = "Specific_Capacity_Lps_per_m" -> {T7, Tempty}],
      [c \in {"Static_WL_m_bgl", "Dynamic_WL_m_bgl", "Drawdown_m",
              "Specific_Capacity_Lps_per_m", "Yield_Lps"} |->
         CASE c = "Static_WL_m_bgl" -> {T1c5, T3}
           [] c = "Dynamic_WL_m_bgl" -> {T3, Tabc}
           [] c = "Drawdown_m" -> {T0, Tempty}
           [] c = "Specific_Capacity_Lps_per_m" -> {T7, Tempty}
           [] c = "Yield_Lps" -> {T2c5}],
      [c \in {"Storage_Coefficient", "Monthly_Volume_m3"} |->
         CASE c = "Storage_Coefficient" -> {T0c002, Tsmall}
           [] c = "Monthly_Volume_m3" -> {T100, Tempty}],
      [c \in {"Yield_Lps", "Transmissivity_m2_per_day"} |->
         CASE c = "Yield_Lps" -> {T1c5, Tthou, Tneg, Tabc}
           [] c = "Transmissivity_m2_per_day" -> {T120, Tthou}] }

RECURSIVE RowsOver(_, _)
RowsOver(sch, cs) ==
    IF cs = {} THEN {<<>>}
    ELSE LET c == CHOOSE x \in cs : TRUE
         IN  {(c :> v) @@ r : v \in sch[c], r \in RowsOver(sch, cs \ {c})}

RowsOf(sch) == RowsOver(sch, DOMAIN sch)

\* the files of at most MaxRows rows over the schemas
Files ==
    {Unreadable} \cup
    UNION { UNION { { File(n, [c \in DOMAIN sch |-> [i \in 1..n |-> rs[i][c]]]) :
                        rs \in [1..n -> RowsOf(sch)] } : n \in 0..MaxRows } :
            sch \in Schemas }


SampleFiles == {Unreadable, FileScenario, FileFull, FileWL}

\* process_bh_ea_csv on the files the handler is sent, computed once
ParsedSamples == [f \in SampleFiles |-> process_bh_ea_csv(f)]
Parsed(f)     == ParsedSamples[f]

-----------------------------------------------------------------------------
(* The request handler: index (app.py:302-438) *)

Txt(w) == Str(<<w>>)
Tenths(n)    == Num(n, 0 - 1)
TenThous(n)  == Num(n, 0 - 4)
Whole(xs)    == [i \in 1..Len(xs) |-> Num(xs[i], 0)]

\* app.py:38-49
default_data ==
    [n |-> 6,
     cols |-> [c \in {"District", "Borehole_Type", "Depth_m", "Yield_Lps", "Cost_USD",
                      "Pumping_Hours", "Recovery_Hours", "Transmissivity_m2_per_day",
                      "Storage_Coefficient"} |->
        CASE c = "District" ->
                <<Txt("Amathole"), Txt("BCM"), Txt("Chris Hani"),
                  Txt("Amathole"), Txt("BCM"), Txt("Chris Hani")>>
          [] c = "Borehole_Type" ->
                <<Txt("Production"), Txt("Production"), Txt("Production"),
                  Txt("Domestic"), Txt("Domestic"), Txt("Domestic")>>
          [] c = "Depth_m" -> Whole(<<120, 110, 125, 60, 55, 65>>)
          [] c = "Yield_Lps" ->
                <<Tenths(52), Tenths(48), Tenths(61), Tenths(18), Tenths(21), Tenths(23)>>
          [] c = "Cost_USD" -> Whole(<<7285, 7200, 7350, 3723, 3700, 3740>>)
          [] c = "Pumping_Hours" -> Whole(<<8, 6, 10, 4, 3, 5>>)
          [] c = "Recovery_Hours" -> Whole(<<6, 5, 8, 3, 2, 4>>)
          [] c = "Transmissivity_m2_per_day" -> Whole(<<120, 135, 140, 45, 50, 55>>)
          [] c = "Storage_Coefficient" ->
                <<TenThous(20), TenThous(15), TenThous(25),
                  TenThous(8), TenThous(10), TenThous(12)>>]]

\* upload_to_gcs (app.py:55-69).  Without a remote name the timestamp is taken
\* from datetime.datetime.utcnow(), and datetime is already the class
\* (app.py:10): AttributeError, caught, None.  gcsOk: the bucket accepts the blob.
upload_to_gcs(has_remote_name, gcsOk) ==
    IF ~has_remote_name THEN None
    ELSE IF gcsOk THEN "url" ELSE None

\* The message is the sequence of the texts added to it; NoMessage is None
\* (the handler never makes it the empty string)
NoMessage == <<>>

\* message = (message or '') + text
OrEmptyPlus(message, text) == Append(message, text)

\* message += text raises TypeError when message is None
PlusEqRaises(message) == message = NoMessage

\* float(request.form.get(name, current)) for a field holding text, or absent
Absent == <<"absent">>
FieldOk(x)       == x = Absent \/ PyFloat(x).ok
FieldVal(x, cur) == IF x = Absent THEN cur ELSE PyFloat(x).val

\* app.py:309-316: the four assignments run in order inside one try; the first
\* ValueError ends them, and what was assigned before it stays assigned
UpdateThresholds(th, form) ==
    IF ~form.present THEN th
    ELSE IF ~FieldOk(form.YIELD_GOLD_MIN) THEN th
    ELSE LET t1 == [th EXCEPT !.YIELD_GOLD_MIN =
                        FieldVal(form.YIELD_GOLD_MIN, th.YIELD_GOLD_MIN)]
         IN  IF ~FieldOk(form.COST_GOLD_MAX) THEN t1
    ELSE LET t2 == [t1 EXCEPT !.COST_GOLD_MAX =
                        FieldVal(form.COST_GOLD_MAX, th.COST_GOLD_MAX)]
         IN  IF ~FieldOk(form.YIELD_TROUBLE_MAX) THEN t2
    ELSE LET t3 == [t2 EXCEPT !.YIELD_TROUBLE_MAX =
                        FieldVal(form.YIELD_TROUBLE_MAX, th.YIELD_TROUBLE_MAX)]
         IN  IF ~FieldOk(form.COST_TROUBLE_MIN) THEN t3
    ELSE [t3 EXCEPT !.COST_TROUBLE_MIN =
              FieldVal(form.COST_TROUBLE_MIN, th.COST_TROUBLE_MIN)]

\* The handler's working state: the globals it may assign, the message, and
\* whether an exception has escaped (exc)
Work(d, pimg, pcsv, uimg, message, exc) ==
    [df |-> d, pimg |-> pimg, pcsv |-> pcsv, uimg |-> uimg,
     message |-> message, exc |-> exc]

\* a variant in which a failed parse replaces the current table
CsvClearsOnError(w, r) ==
    IF ~(r.file.present /\ r.file.is_csv) THEN w
    ELSE LET res == Parsed(r.file.content)
         IN  IF res.ok
             THEN [w EXCEPT !.df = res.table,
                            !.message = OrEmptyPlus(w.message, "csv_loaded")]
             ELSE [w EXCEPT !.df = res.table,
                            !.message = OrEmptyPlus(w.message, "csv_error")]

\* app.py:321-333
CsvStage(w, r) ==
    IF ~(r.file.present /\ r.file.is_csv) THEN w
    ELSE LET res == Parsed(r.file.content)
             url == upload_to_gcs(FALSE, r.gcsOk)
         IN  IF res.ok
             THEN LET m == OrEmptyPlus(w.message, "csv_loaded")
                  IN  [w EXCEPT !.df = res.table,
                                !.message = IF url # None
                                            THEN Append(m, "csv_cloud_url") ELSE m]
             ELSE [w EXCEPT !.message = OrEmptyPlus(w.message, "csv_error")]

\* app.py:336-350.  dat.save is outside every try.  The else belongs to
\* "if gcs_url".
ErtStage(w, r) ==
    IF w.exc # None \/ ~r.ert.present THEN w
    ELSE IF ~r.ert.saveOk THEN [w EXCEPT !.exc = "OSError"]
    ELSE LET res == process_ert_data(r.ert.env)
             url == upload_to_gcs(FALSE, r.gcsOk)
         IN  IF res.raised THEN [w EXCEPT !.exc = "OSError"]
             ELSE LET w1 == IF res.img # None
                            THEN [w EXCEPT !.pimg = res.img, !.pcsv = res.csv,
                                           !.message = OrEmptyPlus(w.message, "ert_processed")]
                            ELSE w
                  IN  IF url # None
                      THEN IF PlusEqRaises(w1.message)
                           THEN [w1 EXCEPT !.exc = "TypeError"]
                           ELSE [w1 EXCEPT !.message = Append(w1.message, "ert_cloud_url")]
                      ELSE [w1 EXCEPT !.message = OrEmptyPlus(w1.message, "ert_failed")]

\* app.py:353-362.  img.save is outside every try.
ImgStage(w, r) ==
    IF w.exc # None \/ ~r.ert_image.present THEN w
    ELSE IF ~r.ert_image.saveOk THEN [w EXCEPT !.exc = "OSError"]
    ELSE LET m   == OrEmptyPlus(w.message, "img_uploaded")
             url == upload_to_gcs(FALSE, r.gcsOk)
         IN  [w EXCEPT !.uimg = "uploaded_image",
                       !.message = IF url # None THEN Append(m, "img_cloud_url") ELSE m]

\* analyze_with_ai_studio (ai_studio_client.py:18-63) by what the service
\* does: the key is unset; the POST times out (requests raises); the status
\* is not 200; the body is not the expected JSON envelope; the text is not
\* JSON (kept as raw_text); the text is JSON: an object with the summary
\* ("card"), with the summary and recommendations that are not strings
\* ("bad_recs"), without any expected key ("quiet"), or not an object at all.
AiAnswers ==
    {"no_key", "timeout", "http_error", "bad_format", "raw_text", "card",
     "bad_recs", "quiet", "not_dict"}

AiOut(raised, is_dict, keys) == [raised |-> raised, is_dict |-> is_dict, keys |-> keys]

analyze_with_ai_studio(ai) ==
    CASE ai = "no_key"     -> AiOut(FALSE, TRUE, {"error"})
      [] ai = "timeout"    -> AiOut(TRUE, FALSE, {})
      [] ai = "http_error" -> AiOut(FALSE, TRUE, {"error", "detail"})
      [] ai = "bad_format" -> AiOut(FALSE, TRUE, {"error", "detail"})
      [] ai = "raw_text"   -> AiOut(FALSE, TRUE, {"raw_text"})
      [] ai = "card"       -> AiOut(FALSE, TRUE, {"interpretation_summary", "goldilocks_sites",
                                                  "trouble_sites", "recommendations"})
      [] ai = "bad_recs"   -> AiOut(FALSE, TRUE, {"interpretation_summary", "recommendations"})
      [] ai = "not_dict"   -> AiOut(FALSE, FALSE, {})
      [] OTHER             -> AiOut(FALSE, TRUE, {})

\* a variant in which a failing narrative step ends the request
NarrAborts(w, r) ==
    IF w.exc # None THEN w
    ELSE IF r.narr \in {"raises", "contour_raises", "timeout", "bad_recs"}
         THEN [w EXCEPT !.exc = "ExternalServiceError"]
         ELSE w

\* app.py:365-422: everything is inside one try/except Exception.
\* r.narr: "contour_raises" (generate_contour_report raises, when there is an
\* image to report on), "raises" (building or writing the metadata raises),
\* or one of AiAnswers
NarrStage(w, r) ==
    IF w.exc # None THEN w
    ELSE LET base       == IF w.pimg # None THEN w.pimg ELSE w.uimg
             report_url == IF base # None THEN upload_to_gcs(TRUE, r.gcsOk) ELSE None
             meta_url   == upload_to_gcs(TRUE, r.gcsOk)
             ai_out     == analyze_with_ai_studio(r.narr)
             skipped    == [w EXCEPT !.message = OrEmptyPlus(w.message, "ai_skipped")]
         IN  IF base # None /\ r.narr = "contour_raises" THEN skipped
             ELSE IF r.narr = "raises" THEN skipped
             ELSE IF meta_url # None /\ report_url # None
                  THEN IF ai_out.raised THEN skipped
                       ELSE IF ai_out.is_dict
                               /\ ai_out.keys \cap {"interpretation_summary", "raw_text"} # {}
                            THEN IF r.narr = "bad_recs" THEN skipped
                                 ELSE [w EXCEPT !.message = OrEmptyPlus(w.message, "ai_card")]
                            ELSE w
                  ELSE w

\* the body of index() up to the rendering
Handle(w, r) ==
    IF r.method = "POST"
    THEN NarrStage(ImgStage(ErtStage(CsvStage(w, r), r), r), r)
    ELSE w


\* --- requests ---

NoForm == [present |-> FALSE, YIELD_GOLD_MIN |-> Absent, COST_GOLD_MAX |-> Absent,
           YIELD_TROUBLE_MAX |-> Absent, COST_TROUBLE_MIN |-> Absent]

Tx == <<"x">>
T2 == <<"2">>

\* 'YIELD_GOLD_MIN' is in the form; every field is a number, not a number, or
\* (the other three) absent
Forms ==
    [present : {TRUE}, YIELD_GOLD_MIN : {T2, Tx}, COST_GOLD_MAX : {T3, Tx},
     YIELD_TROUBLE_MAX : {T1, Tx}, COST_TROUBLE_MIN : {T4, Tx}]
    \cup {[present |-> TRUE, YIELD_GOLD_MIN |-> T2, COST_GOLD_MAX |-> Absent,
           YIELD_TROUBLE_MAX |-> Absent, COST_TROUBLE_MIN |-> T4]}

NoUpload == [present |-> FALSE, is_csv |-> FALSE, content |-> Unreadable]
CsvUploads ==
    {NoUpload} \cup [present : {TRUE}, is_csv : {TRUE}, content : SampleFiles]
    \cup {[present |-> TRUE, is_csv |-> FALSE, content |-> FileFull]}

\* the environments of process_ert_data inside the handler: the upload folder
\* exists once dat.save has written into it
ErtOkEnv ==
    [mkdirOk |-> TRUE, has_pygimli |-> FALSE, pg |-> "ok", is_csv |-> FALSE,
     fb |-> "ok", png0 |-> "absent", csv0 |-> "absent"]
ErtFailEnv == [ErtOkEnv EXCEPT !.is_csv = TRUE, !.fb = "read"]

NoErt == [present |-> FALSE, saveOk |-> TRUE, env |-> ErtOkEnv]
ErtUploads ==
    {NoErt} \cup [present : {TRUE}, saveOk : {TRUE}, env : {ErtOkEnv, ErtFailEnv}]
    \cup {[present |-> TRUE, saveOk |-> FALSE, env |-> ErtOkEnv]}

NoImg == [present |-> FALSE, saveOk |-> TRUE]
ImgUploads == {NoImg} \cup [present : {TRUE}, saveOk : BOOLEAN]

Request(method, form, file, ert, img, gcsOk, narr) ==
    [method |-> method, form |-> form, file |-> file, ert |-> ert,
     ert_image |-> img, gcsOk |-> gcsOk, narr |-> narr]

GetRequest == Request("GET", NoForm, NoUpload, NoErt, NoImg, TRUE, "quiet")

\* The requests of the model: a GET; a POST of the threshold form; a POST of
\* a CSV file; a POST of a sounding file and a preview image, alone or beside
\* a CSV file that cannot be read; a POST of a preview image under every
\* outcome of the narrative step.  The cloud bucket accepts or refuses.
Requests ==
    {GetRequest}
    \cup {Request("POST", f, NoUpload, NoErt, NoImg, TRUE, "raises") : f \in Forms}
    \cup {Request("POST", NoForm, c, NoErt, NoImg, g, "raises") :
            c \in CsvUploads, g \in BOOLEAN}
    \cup {Request("POST", NoForm, c, e, i, g, "card") :
            c \in {NoUpload, [present |-> TRUE, is_csv |-> TRUE, content |-> Unreadable]},
            e \in ErtUploads, i \in ImgUploads, g \in BOOLEAN}
    \cup {Request("POST", NoForm, NoUpload, NoErt, [present |-> TRUE, saveOk |-> TRUE], g, n) :
            g \in BOOLEAN, n \in AiAnswers \cup {"raises", "contour_raises"}}

Thresholds ==
    [COST_GOLD_MAX |-> COST_GOLD_MAX, YIELD_GOLD_MIN |-> YIELD_GOLD_MIN,
     COST_TROUBLE_MIN |-> COST_TROUBLE_MIN, YIELD_TROUBLE_MAX |-> YIELD_TROUBLE_MAX]

NoRequest  == [GetRequest EXCEPT !.method = "none"]
NoResponse == [status |-> "none", message |-> NoMessage, exc |-> None,
               total_bh |-> 0]
NoResult   == Raise("none")
NoMetrics  == [total_bh |-> 0 - 1]
NoErtEnv   == [ErtOkEnv EXCEPT !.pg = "none"]
NoErtOut   == ErtResult(FALSE, "none", "none", "none", "none")

InitApp ==
    /\ df = default_data
    /\ ert_processed_img = None
    /\ ert_processed_csv = None
    /\ ert_uploaded_img = None
    /\ COST_GOLD_MAX = DefaultThresholds.COST_GOLD_MAX
    /\ YIELD_GOLD_MIN = DefaultThresholds.YIELD_GOLD_MIN
    /\ COST_TROUBLE_MIN = DefaultThresholds.COST_TROUBLE_MIN
    /\ YIELD_TROUBLE_MAX = DefaultThresholds.YIELD_TROUBLE_MAX
    /\ req = NoRequest
    /\ resp = NoResponse
    /\ lastCsv = default_data
    /\ lastErt = <<None, None>>

IdleNorm ==
    /\ raw = Unreadable
    /\ norm1 = NoResult
    /\ norm2 = NoResult
    /\ metrics = NoMetrics
    /\ nphase = "idle"

NoGrid == [raised |-> FALSE, xs |-> <<>>, zs |-> <<>>, arr |-> <<>>]

IdleErt ==
    /\ ertIn = NoErtEnv
    /\ ertOut = NoErtOut
    /\ ephase = "idle"
    /\ samples = <<>>
    /\ grid = NoGrid

\* what the environment of request r makes of its uploads
CsvProcessed(r) ==
    r.method = "POST" /\ r.file.present /\ r.file.is_csv
        /\ Parsed(r.file.content).ok
CsvFailed(r) ==
    r.method = "POST" /\ r.file.present /\ r.file.is_csv
        /\ ~Parsed(r.file.content).ok
ErtReturned(r) ==
    r.method = "POST" /\ r.ert.present /\ r.ert.saveOk
        /\ ~process_ert_data(r.ert.env).raised
ErtArtifacts(r) == ErtReturned(r) /\ process_ert_data(r.ert.env).img # None
ErtAbsent(r)    == ErtReturned(r) /\ process_ert_data(r.ert.env).img = None

\* index(): one request, from the threshold form to the rendered page
Index(r) ==
    LET th == UpdateThresholds(Thresholds, r.form)
        w  == Handle(Work(df, ert_processed_img, ert_processed_csv,
                          ert_uploaded_img, NoMessage, None), r)
    IN  /\ COST_GOLD_MAX' = th.COST_GOLD_MAX
        /\ YIELD_GOLD_MIN' = th.YIELD_GOLD_MIN
        /\ COST_TROUBLE_MIN' = th.COST_TROUBLE_MIN
        /\ YIELD_TROUBLE_MAX' = th.YIELD_TROUBLE_MAX
        /\ df' = w.df
        /\ ert_processed_img' = w.pimg
        /\ ert_processed_csv' = w.pcsv
        /\ ert_uploaded_img' = w.uimg
        /\ req' = r
        /\ resp' = IF w.exc # None
                   THEN [status |-> "exception", message |-> w.message, exc |-> w.exc,
                         total_bh |-> 0]
                   ELSE [status |-> "rendered", message |-> w.message, exc |-> None,
                         total_bh |-> total_bh(w.df)]
        /\ lastCsv' = IF CsvProcessed(r) THEN Parsed(r.file.content).table
                      ELSE lastCsv
        /\ lastErt' = IF ErtArtifacts(r) THEN <<img_out, csv_out>> ELSE lastErt
        /\ UNCHANGED <<normVars, ertVars>>

Init == InitApp /\ IdleNorm /\ IdleErt
Next == \E r \in Requests : Index(r)
Spec == Init /\ [][Next]_vars

\* --- the normalizer and the aggregator on every file of the model ---

Normalize ==
    /\ nphase = "input"
    /\ norm1' = process_bh_ea_csv(raw)
    /\ nphase' = "normalized"
    /\ UNCHANGED <<raw, norm2, metrics, appVars, ertVars>>

Renormalize ==
    /\ nphase = "normalized" /\ norm1.ok
    /\ norm2' = NormalizeTable(norm1.table)
    /\ nphase' = "renormalized"
    /\ UNCHANGED <<raw, norm1, metrics, appVars, ertVars>>

Dashboard ==
    /\ nphase = "normalized" /\ norm1.ok
    /\ metrics' = build_dashboard(norm1.table, DefaultThresholds)
    /\ nphase' = "dashboard"
    /\ UNCHANGED <<raw, norm1, norm2, appVars, ertVars>>

InitNorm ==
    /\ InitApp /\ IdleErt
    /\ raw \in Files
    /\ norm1 = NoResult /\ norm2 = NoResult /\ metrics = NoMetrics
    /\ nphase = "input"
NextNorm == Normalize \/ Renormalize \/ Dashboard
SpecNorm == InitNorm /\ [][NextNorm]_vars

\* --- process_ert_data in every environment of the model ---

ProcessErt ==
    /\ ephase = "input"
    /\ ertOut' = process_ert_data(ertIn)
    /\ ephase' = "returned"
    /\ UNCHANGED <<ertIn, samples, grid, appVars, normVars>>

InitErt ==
    /\ InitApp /\ IdleNorm
    /\ ertIn \in ErtEnvs
    /\ ertOut = NoErtOut
    /\ ephase = "input"
    /\ samples = <<>> /\ grid = NoGrid
NextErt == ProcessErt
SpecErt == InitErt /\ [][NextErt]_vars


\* --- build_dashboard on small tables under several threshold settings ---

ClassCosts  == {NaN, Num(1500, 0), Num(1700, 0), Num(4000, 0), Num(5000, 0)}
ClassYields == {NaN, Num(8, 0 - 1), Num(1, 0), Num(17, 0 - 1), Num(2, 0)}

\* tables of up to MaxRows rows, with and without a cost column
ClassTables ==
    UNION {[n : {k}, cols : [Cost_USD : [1..k -> ClassCosts],
                             Yield_Lps : [1..k -> ClassYields]]] : k \in 0..MaxRows}
    \cup UNION {[n : {k}, cols : [Yield_Lps : [1..k -> ClassYields]]] : k \in 0..MaxRows}

\* the defaults; overlapping bands; the bands swapped; a form's values
ThresholdConfigs ==
    {DefaultThresholds,
     [COST_GOLD_MAX |-> Num(5000, 0), YIELD_GOLD_MIN |-> Num(8, 0 - 1),
      COST_TROUBLE_MIN |-> Num(1500, 0), YIELD_TROUBLE_MAX |-> Num(2, 0)],
     [COST_GOLD_MAX |-> Num(4000, 0), YIELD_GOLD_MIN |-> Num(1, 0),
      COST_TROUBLE_MIN |-> Num(1700, 0), YIELD_TROUBLE_MAX |-> Num(17, 0 - 1)],
     [COST_GOLD_MAX |-> Num(3, 0), YIELD_GOLD_MIN |-> Num(2, 0),
      COST_TROUBLE_MIN |-> Num(4, 0), YIELD_TROUBLE_MAX |-> Num(1, 0)]}

Classify ==
    /\ nphase = "unclassified"
    /\ metrics' = build_dashboard(df, Thresholds)
    /\ nphase' = "classified"
    /\ UNCHANGED <<raw, norm1, norm2, appVars, ertVars>>

InitClass ==
    /\ IdleErt
    /\ df \in ClassTables
    /\ lastCsv = df
    /\ \E th \in ThresholdConfigs :
          /\ COST_GOLD_MAX = th.COST_GOLD_MAX
          /\ YIELD_GOLD_MIN = th.YIELD_GOLD_MIN
          /\ COST_TROUBLE_MIN = th.COST_TROUBLE_MIN
          /\ YIELD_TROUBLE_MAX = th.YIELD_TROUBLE_MAX
    /\ ert_processed_img = None /\ ert_processed_csv = None
    /\ ert_uploaded_img = None /\ lastErt = <<None, None>>
    /\ req = NoRequest /\ resp = NoResponse
    /\ raw = Unreadable /\ norm1 = NoResult /\ norm2 = NoResult
    /\ metrics = NoMetrics
    /\ nphase = "unclassified"
NextClass == Classify
SpecClass == InitClass /\ [][NextClass]_vars


\* --- the rasterization of every small CSV sounding file ---

SampleXs == {Num(0, 0), Num(1, 0), NaN}
SampleZs == {Num(0, 0), Num(2, 0)}
SampleRs == {Num(0, 0), Num(5, 0), NaN}
SampleFilesErt ==
    UNION {[1..k -> SampleXs \X SampleZs \X SampleRs] : k \in 0..MaxSamples}

RasterizeCsv ==
    /\ ephase = "samples"
    /\ grid' = Rasterize(samples)
    /\ ephase' = "rasterized"
    /\ UNCHANGED <<ertIn, ertOut, samples, appVars, normVars>>

InitGrid ==
    /\ InitApp /\ IdleNorm
    /\ ertIn = NoErtEnv /\ ertOut = NoErtOut
    /\ samples \in SampleFilesErt
    /\ grid = NoGrid
    /\ ephase = "samples"
NextGrid == RasterizeCsv
SpecGrid == InitGrid /\ [][NextGrid]_vars


-----------------------------------------------------------------------------
(* Properties *)

Contains(xs, x) == \E i \in 1..Len(xs) : xs[i] = x

\* a cell of column c, NaN when the table has no such column
Cell(t, c, i) == IF Has(t, c) THEN Col(t, c)[i] ELSE NaN

\* C1: the current table is the normalizer output of the most recent CSV
\* upload processed successfully (the demonstration table if none), and the
\* processed-ERT paths are those of the most recent ERT upload that produced
\* artifacts (None if none); a failed upload leaves both as they were.
C1_LastGoodState ==
    /\ df = lastCsv
    /\ <<ert_processed_img, ert_processed_csv>> = lastErt

\* a CSV upload and an ERT upload both failed after earlier ones had succeeded
C1_Witness ==
    /\ CsvFailed(req) /\ ErtAbsent(req)
    /\ df = Parsed(FileWL).table
    /\ ert_processed_img = img_out /\ ert_processed_csv = csv_out

\* C2 (as claimed): a threshold form with a non-numeric field changes none of
\* the four thresholds.
FormInvalid(form) ==
    form.present /\ ~(FieldOk(form.YIELD_GOLD_MIN) /\ FieldOk(form.COST_GOLD_MAX)
                      /\ FieldOk(form.YIELD_TROUBLE_MAX) /\ FieldOk(form.COST_TROUBLE_MIN))

C2_InvalidFormIgnored ==
    [][FormInvalid(req'.form) =>
         UNCHANGED <<YIELD_GOLD_MIN, COST_GOLD_MAX, YIELD_TROUBLE_MAX,
                     COST_TROUBLE_MIN>>]_vars

\* C3 (as claimed): a POST whose CSV parse fails or whose process_ert_data
\* returns (None, None) ends with the page rendered and an advisory in the
\* message, whatever the cloud upload does.
C3_NoHardFailure ==
    (CsvFailed(req) \/ ErtAbsent(req)) =>
        /\ resp.status = "rendered"
        /\ Contains(resp.message, "csv_error") \/ Contains(resp.message, "ert_failed")

\* C4 (as claimed): process_ert_data never raises; it returns both paths or
\* (None, None).
C4_NeverRaises ==
    ephase = "returned" =>
        /\ ~ertOut.raised
        /\ \/ ertOut.img = img_out /\ ertOut.csv = csv_out
           \/ ertOut.img = None /\ ertOut.csv = None

\* C5 (as claimed): the "ERT processing failed" advisory is in the message
\* exactly when process_ert_data returned (None, None), whatever the cloud
\* upload did.
C5_AdvisoryIffAbsent ==
    req.method = "POST" =>
        (Contains(resp.message, "ert_failed") <=> ErtAbsent(req))

\* C6 (as claimed): a CSV with only Depth_m, Yield_Lps and Cost_USD is
\* normalized successfully, cost-per-depth being cost / depth; the row
\* 100;2,5;5000 gives depth 100.0, yield 2.5, cost 5000.0, cost_per_m 50.0.
C6_ThreeColumnCsv ==
    (nphase # "input" /\ raw.readable
        /\ DOMAIN raw.cols = {"Depth_m", "Yield_Lps", "Cost_USD"}) =>
        /\ norm1.ok
        /\ \A i \in Rows(norm1.table) :
              Cell(norm1.table, "Cost_per_m_USD", i)
                = SafeDiv(Cell(norm1.table, "Cost_USD", i), Cell(norm1.table, "Depth_m", i))
        /\ raw = FileScenario =>
              /\ Cell(norm1.table, "Depth_m", 1) = Num(100, 0)
              /\ Cell(norm1.table, "Yield_Lps", 1) = Num(25, 0 - 1)
              /\ Cell(norm1.table, "Cost_USD", 1) = Num(5000, 0)
              /\ Cell(norm1.table, "Cost_per_m_USD", 1) = Num(50, 0)

\* C7 (as claimed): on a table with zero rows build_dashboard reports count 0
\* and every mean 0; the mean of an empty or all-NaN column is 0, not NaN.
AllMissing(t, c) == ~Has(t, c) \/ \A i \in Rows(t) : ~IsNum(ToNumeric(Col(t, c)[i]))

C7_EmptyMeansZero ==
    nphase = "dashboard" =>
        /\ norm1.table.n = 0 =>
              /\ metrics.total_bh = 0
              /\ metrics.avg_yield = Num(0, 0) /\ metrics.avg_cost = Num(0, 0)
              /\ metrics.avg_transmissivity = Num(0, 0)
              /\ metrics.avg_storage = Num(0, 0) /\ metrics.avg_volume = Num(0, 0)
        /\ AllMissing(norm1.table, "Yield_Lps") => metrics.avg_yield = Num(0, 0)
        /\ AllMissing(norm1.table, "Cost_USD") => metrics.avg_cost = Num(0, 0)
        /\ AllMissing(norm1.table, "Transmissivity_m2_per_day")
              => metrics.avg_transmissivity = Num(0, 0)
        /\ AllMissing(norm1.table, "Storage_Coefficient") => metrics.avg_storage = Num(0, 0)
        /\ AllMissing(norm1.table, "Monthly_Volume_m3") => metrics.avg_volume = Num(0, 0)

\* the uploaded table after the numeric coercion, before any derivation
Coerced == CoerceNumeric(ReadCsv(raw))

\* C8 (as claimed): in the returned table a row lacking a static or a dynamic
\* water level has drawdown NaN, and a row having both has drawdown =
\* dynamic - static, for every input table.
C8_DrawdownAlwaysDerived ==
    (nphase # "input" /\ norm1.ok) =>
        \A i \in Rows(norm1.table) :
            LET st == Cell(norm1.table, "Static_WL_m_bgl", i)
                dy == Cell(norm1.table, "Dynamic_WL_m_bgl", i)
                dd == Cell(norm1.table, "Drawdown_m", i)
            IN  IF IsNum(st) /\ IsNum(dy) THEN dd = Sub(dy, st) ELSE IsNaN(dd)

\* the normalizer derives the drawdown: both water-level columns are there,
\* and the Drawdown_m column is absent or has a NaN cell
DrawdownDerived ==
    /\ Has(Coerced, "Static_WL_m_bgl") /\ Has(Coerced, "Dynamic_WL_m_bgl")
    /\ ~Has(Coerced, "Drawdown_m") \/ AnyNull(Col(Coerced, "Drawdown_m"))

\* C8 (amended): when the input has both water-level columns and its
\* Drawdown_m column is absent or holds a NaN, a row lacking a static or a
\* dynamic level has drawdown NaN and a row having both has drawdown =
\* dynamic - static when that is not negative, NaN when it is negative;
\* otherwise the Drawdown_m column is the input's own (absent if it had none).
C8_DrawdownDerivedWhenMissing ==
    (nphase # "input" /\ norm1.ok) =>
        IF DrawdownDerived
        THEN \A i \in Rows(norm1.table) :
                LET st == Cell(norm1.table, "Static_WL_m_bgl", i)
                    dy == Cell(norm1.table, "Dynamic_WL_m_bgl", i)
                    dd == Cell(norm1.table, "Drawdown_m", i)
                IN  IF IsNum(st) /\ IsNum(dy) /\ ~Lt0(Sub(dy, st))
                    THEN dd = Sub(dy, st) ELSE IsNaN(dd)
        ELSE /\ Has(norm1.table, "Drawdown_m") <=> Has(Coerced, "Drawdown_m")
             /\ Has(Coerced, "Drawdown_m")
                   => Col(norm1.table, "Drawdown_m") = Col(Coerced, "Drawdown_m")

\* a table with a partly filled Drawdown_m column: one row gets dynamic -
\* static, another (no static level) gets NaN
C8_Witness ==
    /\ nphase = "normalized" /\ norm1.ok /\ DrawdownDerived
    /\ Has(Coerced, "Drawdown_m")
    /\ \E i, j \in Rows(norm1.table) :
          /\ IsNum(Cell(norm1.table, "Static_WL_m_bgl", i))
          /\ IsNum(Cell(norm1.table, "Drawdown_m", i))
          /\ Cell(norm1.table, "Drawdown_m", i)
               = Sub(Cell(norm1.table, "Dynamic_WL_m_bgl", i),
                     Cell(norm1.table, "Static_WL_m_bgl", i))
          /\ Cell(norm1.table, "Drawdown_m", i) # Cell(Coerced, "Drawdown_m", i)
          /\ IsNaN(Cell(norm1.table, "Static_WL_m_bgl", j))
          /\ IsNaN(Cell(norm1.table, "Drawdown_m", j))

\* C9 (as claimed): in the returned table every row whose drawdown is 0 has
\* specific capacity NaN, for every input table.
C9_ZeroDrawdownAlwaysNaN ==
    (nphase # "input" /\ norm1.ok) =>
        \A i \in Rows(norm1.table) :
            IsZero(Cell(norm1.table, "Drawdown_m", i))
                => IsNaN(Cell(norm1.table, "Specific_Capacity_Lps_per_m", i))

\* the normalizer derives the specific capacity: its column is absent or has
\* a NaN cell, and yield and drawdown are there
SpecCapDerived ==
    /\ ~Has(Coerced, "Specific_Capacity_Lps_per_m")
          \/ AnyNull(Col(Coerced, "Specific_Capacity_Lps_per_m"))
    /\ Has(Coerced, "Yield_Lps") /\ Has(norm1.table, "Drawdown_m")

\* C9 (amended): when the input's specific-capacity column is absent or holds
\* a NaN (and yield and drawdown are available), every row whose drawdown is 0
\* has specific capacity NaN; a fully populated column is kept as supplied.
\* In no case does the column hold infinity.
C9_ZeroDrawdownNaNWhenDerived ==
    (nphase # "input" /\ norm1.ok) =>
        /\ \A i \in Rows(norm1.table) :
              ~IsInf(Cell(norm1.table, "Specific_Capacity_Lps_per_m", i))
        /\ IF SpecCapDerived
           THEN \A i \in Rows(norm1.table) :
                   IsZero(Cell(norm1.table, "Drawdown_m", i))
                       => IsNaN(Cell(norm1.table, "Specific_Capacity_Lps_per_m", i))
           ELSE Has(Coerced, "Specific_Capacity_Lps_per_m")
                   => Col(norm1.table, "Specific_Capacity_Lps_per_m")
                        = Col(Coerced, "Specific_Capacity_Lps_per_m")

\* a row with a yield, drawdown 0 and a derived specific capacity of NaN
C9_Witness ==
    /\ nphase = "normalized" /\ norm1.ok /\ SpecCapDerived
    /\ \E i \in Rows(norm1.table) :
          /\ IsZero(Cell(norm1.table, "Drawdown_m", i))
          /\ IsNum(Cell(norm1.table, "Yield_Lps", i))
          /\ ~IsZero(Cell(norm1.table, "Yield_Lps", i))
          /\ IsNaN(Cell(norm1.table, "Specific_Capacity_Lps_per_m", i))

\* C10 (as claimed): the normalizer applied to its own output succeeds and
\* returns the same table.
C10_Idempotent ==
    nphase = "renormalized" => (norm2.ok /\ norm2.table = norm1.table)


\* a < b on two cells holding numbers, by their decimal digits
Below(a, b) ==
    /\ IsNum(a) /\ IsNum(b)
    /\ LET e == Min(Exp(a), Exp(b)) IN At(a, e) < At(b, e)

\* C11: every row is flagged favorable iff cost < favorable-cost-ceiling and
\* yield > favorable-yield-floor, and problematic iff cost >
\* problematic-cost-floor and yield < problematic-yield-ceiling, each flag on
\* its own; a row with cost or yield absent has neither.  With the default
\* thresholds (1500, 2.0) is favorable and (1500, 1.0) is neither.
C11_Classification ==
    nphase = "classified" =>
        /\ Len(metrics.gold_mask) = df.n /\ Len(metrics.trou_mask) = df.n
        /\ \A i \in 1..df.n :
              LET cost  == Cell(df, "Cost_USD", i)
                  yield == Cell(df, "Yield_Lps", i)
              IN  /\ metrics.gold_mask[i]
                        <=> (Below(cost, COST_GOLD_MAX) /\ Below(YIELD_GOLD_MIN, yield))
                  /\ metrics.trou_mask[i]
                        <=> (Below(COST_TROUBLE_MIN, cost) /\ Below(yield, YIELD_TROUBLE_MAX))
                  /\ (IsNaN(cost) \/ IsNaN(yield))
                        => (~metrics.gold_mask[i] /\ ~metrics.trou_mask[i])
                  /\ (Thresholds = DefaultThresholds /\ cost = Num(1500, 0)) =>
                        /\ yield = Num(2, 0)
                              => (metrics.gold_mask[i] /\ ~metrics.trou_mask[i])
                        /\ yield = Num(1, 0)
                              => (~metrics.gold_mask[i] /\ ~metrics.trou_mask[i])

\* under overlapping bands, one row carries both flags and another, whose
\* yield is exactly the favorable floor, carries only the problematic one
C11_Witness ==
    /\ nphase = "classified" /\ df.n = 2
    /\ metrics.gold_mask[1] /\ metrics.trou_mask[1]
    /\ Cell(df, "Yield_Lps", 2) = YIELD_GOLD_MIN
    /\ ~metrics.gold_mask[2] /\ metrics.trou_mask[2]


\* C12 (as claimed): with the library unavailable and an input that is not a
\* CSV, process_ert_data returns the artifacts of the synthetic 40 x 80 grid
\* and never (None, None); stated here for the calls whose output directory
\* could be created.
C12_SyntheticAlways ==
    (ephase = "returned" /\ ertIn.mkdirOk /\ ~ertIn.has_pygimli /\ ~ertIn.is_csv) =>
        /\ ~ertOut.raised
        /\ ertOut.img = img_out /\ ertOut.csv = csv_out
        /\ ertOut.png = "synthetic" /\ ertOut.csvf = "synthetic"
        /\ SyntheticShape = <<40, 80>>

\* the call reaches the fallback path / a step of the fallback path raises
FallbackEntered(e) ==
    e.mkdirOk /\ (~e.has_pygimli \/ e.pg \in {"load", "savefig", "savetxt_write"})
FallbackFails(e) ==
    e.fb \in {"savefig", "savetxt"} \/ (e.fb = "read" /\ e.is_csv)

\* C12 (amended): once the output directory exists, an unavailable library or
\* a raising specialised path always leads to the fallback path; there, an
\* input that is not a CSV gives the artifacts of the synthetic grid of 40
\* depth rows by 80 distance columns provided rendering and export succeed,
\* and (None, None) exactly when a fallback step raises.
C12_FallbackReached ==
    (ephase = "returned" /\ FallbackEntered(ertIn)) =>
        /\ ~ertOut.raised
        /\ IF FallbackFails(ertIn)
           THEN ertOut.img = None /\ ertOut.csv = None
           ELSE /\ ertOut.img = img_out /\ ertOut.csv = csv_out
                /\ ertOut.png = ertOut.csvf
                /\ ertOut.csvf = (IF ertIn.is_csv THEN "grid" ELSE "synthetic")
                /\ ~ertIn.is_csv => (SyntheticShape = <<40, 80>>)

\* the specialised path raised while loading, the input is not a CSV, and the
\* synthetic section was rendered and exported
C12_Witness ==
    /\ ephase = "returned"
    /\ ertIn.mkdirOk /\ ertIn.has_pygimli /\ ertIn.pg = "load" /\ ~ertIn.is_csv
    /\ ertOut.img = img_out /\ ertOut.csvf = "synthetic"


\* request r reaches the narrative step, and the step fails: a part of it
\* raises, a cloud upload is refused, or the AI answer is unusable
NarrReached(r) ==
    /\ r.method = "POST"
    /\ ~(r.ert.present /\ ~r.ert.saveOk)
    /\ ~(r.ert_image.present /\ ~r.ert_image.saveOk)
NarrFailure(r) ==
    /\ NarrReached(r)
    /\ \/ r.narr \in {"raises", "contour_raises", "no_key", "timeout", "http_error",
                      "bad_format", "raw_text", "bad_recs", "not_dict"}
       \/ ~r.gcsOk

\* C13: a POST whose narrative step fails still ends with the dashboard
\* rendered from the current table, and the step changes nothing: table,
\* artifact paths, preview image and thresholds are what the uploads and the
\* form of that request made them (unchanged when there were none).
C13_NarrativeFailureContained ==
    [][NarrFailure(req') =>
         /\ resp'.status = "rendered" /\ resp'.exc = None
         /\ resp'.total_bh = total_bh(df')
         /\ df' = (IF CsvProcessed(req') THEN Parsed(req'.file.content).table ELSE df)
         /\ <<ert_processed_img', ert_processed_csv'>>
              = (IF ErtArtifacts(req') THEN <<img_out, csv_out>>
                 ELSE <<ert_processed_img, ert_processed_csv>>)
         /\ ~req'.ert_image.present => ert_uploaded_img' = ert_uploaded_img
         /\ ~req'.form.present =>
               UNCHANGED <<YIELD_GOLD_MIN, COST_GOLD_MAX, YIELD_TROUBLE_MAX,
                           COST_TROUBLE_MIN>>]_vars

\* the AI call timed out on a request with both cloud uploads accepted; the
\* page is rendered with the "skipped" advisory and the loaded table is kept
C13_Witness ==
    /\ req.method = "POST" /\ req.narr = "timeout" /\ req.gcsOk
    /\ resp.status = "rendered" /\ Contains(resp.message, "ai_skipped")
    /\ df = Parsed(FileWL).table /\ resp.total_bh = df.n


\* the derived fields, the input columns of each, and the column each is
\* defined to be on a table t that has those inputs
DerivedFields ==
    {"Cost_per_m_USD", "Cycle_Duration_hr", "Monthly_Volume_m3", "Efficiency_Index",
     "Storage_Index"}
DerivedInputs(f) ==
    CASE f = "Cost_per_m_USD"    -> {"Cost_USD", "Depth_m"}
      [] f = "Cycle_Duration_hr" -> {"Pumping_Hours", "Recovery_Hours"}
      [] f = "Monthly_Volume_m3" -> {"Yield_Lps"}
      [] f = "Efficiency_Index"  -> {"Transmissivity_m2_per_day", "Cost_USD"}
      [] f = "Storage_Index"     -> {"Storage_Coefficient", "Yield_Lps"}
DerivedColumn(t, f) ==
    CASE f = "Cost_per_m_USD" ->
            [i \in Rows(t) |-> Div(Col(t, "Cost_USD")[i], ZeroToNaN(Col(t, "Depth_m")[i]))]
      [] f = "Cycle_Duration_hr" ->
            [i \in Rows(t) |-> Add(Col(t, "Pumping_Hours")[i], Col(t, "Recovery_Hours")[i])]
      [] f = "Monthly_Volume_m3" ->
            [i \in Rows(t) |-> Div(Mul(Col(t, "Yield_Lps")[i], Num(2592000, 0)), Num(1000, 0))]
      [] f = "Efficiency_Index" ->
            [i \in Rows(t) |-> Mul(Div(Col(t, "Transmissivity_m2_per_day")[i],
                                       Col(t, "Cost_USD")[i]), Num(1000, 0))]
      [] f = "Storage_Index" ->
            [i \in Rows(t) |-> Mul(Col(t, "Storage_Coefficient")[i], Col(t, "Yield_Lps")[i])]

\* C14 (as claimed): each derived field is computed iff its own input columns
\* are in the uploaded table: present inputs give the field its defined
\* values, absent inputs leave the table without the field (unless it was
\* uploaded); in particular a table without depth or cost still gets cycle
\* duration, monthly volume and storage index.  Stated here for the tables on
\* which the normalizer returns.
C14_DerivedPerField ==
    (nphase # "input" /\ norm1.ok) =>
        \A f \in DerivedFields :
            IF DerivedInputs(f) \subseteq DOMAIN raw.cols
            THEN /\ Has(norm1.table, f)
                 /\ Col(norm1.table, f) = DerivedColumn(norm1.table, f)
            ELSE f \notin DOMAIN raw.cols => ~Has(norm1.table, f)


\* the known numeric columns that no later step of the normalizer overwrites
CoercedOnly ==
    {"Depth_m", "Static_WL_m_bgl", "Dynamic_WL_m_bgl", "Yield_Lps", "Cost_USD",
     "Pumping_Hours", "Recovery_Hours", "Transmissivity_m2_per_day",
     "Storage_Coefficient"}

\* C15 (as claimed): no cell content of a known numeric column makes the
\* normalization fail; a cell without any digit becomes NaN, and a cell that
\* is a number written with a decimal comma becomes that number.
C15_RowTolerantCoercion ==
    (nphase # "input" /\ raw.readable) =>
        /\ norm1.err # "ValueError"
        /\ norm1.ok =>
              \A c \in DOMAIN raw.cols \cap CoercedOnly : \A i \in Rows(norm1.table) :
                  LET cs == raw.cols[c][i]
                      n  == PyFloat(ReplaceComma(cs))
                  IN  /\ n.ok => Col(norm1.table, c)[i] = n.val
                      /\ (\A k \in 1..Len(cs) : cs[k] \notin DigitChars)
                            => IsNaN(Col(norm1.table, c)[i])


\* the input rows holding the pair (x, z)
Hits(x, z) == {k \in 1..Len(samples) : samples[k][1] = x /\ samples[k][2] = z}
Last(S) == CHOOSE k \in S : \A j \in S : j <= k

\* C16: the grid rasterized from a CSV sounding file has one row per distinct
\* z and one column per distinct x, both ascending; the cell at (z, x) holds
\* the resistivity of the last input row with exactly that pair, and a cell
\* whose pair occurs in no row is NaN, never zero.
C16_Rasterization ==
    (ephase = "rasterized" /\ ~grid.raised) =>
        /\ {grid.xs[i] : i \in 1..Len(grid.xs)} = {samples[k][1] : k \in 1..Len(samples)}
        /\ {grid.zs[i] : i \in 1..Len(grid.zs)} = {samples[k][2] : k \in 1..Len(samples)}
        /\ \A i, j \in 1..Len(grid.xs) : i < j => Below(grid.xs[i], grid.xs[j])
        /\ \A i, j \in 1..Len(grid.zs) : i < j => Below(grid.zs[i], grid.zs[j])
        /\ Len(grid.arr) = Len(grid.zs)
        /\ \A zi \in 1..Len(grid.zs) :
              /\ Len(grid.arr[zi]) = Len(grid.xs)
              /\ \A xi \in 1..Len(grid.xs) :
                    LET hits == Hits(grid.xs[xi], grid.zs[zi])
                    IN  IF hits = {} THEN IsNaN(grid.arr[zi][xi])
                        ELSE grid.arr[zi][xi] = samples[Last(hits)][3]

\* three rows: the pair (0, 0) twice, first with 0 then with 5, and the pair
\* (1, 2); the grid is 2 x 2 with 5 at (0, 0) and NaN at the two unseen pairs
C16_Witness ==
    /\ ephase = "rasterized" /\ ~grid.raised
    /\ samples = <<<<Num(0, 0), Num(0, 0), Num(0, 0)>>,
                   <<Num(0, 0), Num(0, 0), Num(5, 0)>>,
                   <<Num(1, 0), Num(2, 0), Num(0, 0)>>>>
    /\ grid.arr = <<<<Num(5, 0), NaN>>, <<NaN, Num(0, 0)>>>>


\* C17 (as claimed): whenever process_ert_data returns (None, None), the
\* files ert_result.png and ert_model.csv of the output directory are what
\* they were before the call.
C17_FailureLeavesArtifacts ==
    (ephase = "returned" /\ ~ertOut.raised /\ ertOut.img = None /\ ertOut.csv = None) =>
        /\ ertOut.png = ertIn.png0
        /\ ertOut.csvf = ertIn.csv0

=============================================================================
